---- MODULE Spec2Model ----
(***************************************************************************)
(* Model of the portfolio accounting engine, calculate_portfolio in        *)
(* processor.py, together with the PortfolioSummary model of models.py.    *)
(*                                                                         *)
(* One call of calculate_portfolio is one behaviour: the DataFrame df is   *)
(* the input, pc is the position of the call in the function body, and     *)
(* the other variables are the function's locals.  The row loops of the    *)
(* ledger fold advance one row per step; the valuation loop, the IRR       *)
(* block, and the diagnostic tally with the return are one step each.      *)
(*                                                                         *)
(* Amounts are exact rationals [n, d] in lowest terms (the code uses IEEE  *)
(* doubles: rounding error is outside the model).                          *)
(***************************************************************************)
EXTENDS Integers, Sequences, FiniteSets, TLC

VARIABLES
    df,                     \* the DataFrame handed to calculate_portfolio
    sorted,                 \* df after df.sort_values('Fecha')
    pc,                     \* position in the body of calculate_portfolio
    i,                      \* rows of sorted already folded into the ledger
    portfolio_state,        \* dict symbol -> {quantity, total_cost_eur}, in insertion order
    total_realized_pl_eur,
    cash_flows,
    final_holdings,
    total_value_eur,
    total_invested_eur,
    total_unrealized_pl_eur,
    irr_flows,
    irr,
    ignored_ops,
    summary,                \* the PortfolioSummary returned
    raised                  \* the exception that left the function, "" if none

vars == <<df, sorted, pc, i, portfolio_state, total_realized_pl_eur, cash_flows,
          final_holdings, total_value_eur, total_invested_eur,
          total_unrealized_pl_eur, irr_flows, irr, ignored_ops, summary, raised>>

-----------------------------------------------------------------------------
(* Exact arithmetic standing for the float arithmetic of the code.         *)

Abs(x) == IF x < 0 THEN -x ELSE x

RECURSIVE GCD(_, _)
GCD(a, b) == IF b = 0 THEN a ELSE GCD(b, a % b)

Norm(n, d) ==
    LET g == GCD(Abs(n), Abs(d))
        s == IF d < 0 THEN -1 ELSE 1
    IN  [n |-> s * (n \div g), d |-> s * (d \div g)]

Frac(n, d) == Norm(n, d)
R(k) == [n |-> k, d |-> 1]
Zero == R(0)

RAdd(a, b) == Norm(a.n * b.d + b.n * a.d, a.d * b.d)
RSub(a, b) == Norm(a.n * b.d - b.n * a.d, a.d * b.d)
RNeg(a) == [n |-> -a.n, d |-> a.d]
RMul(a, b) == Norm(a.n * b.n, a.d * b.d)
RDiv(a, b) == Norm(a.n * b.d, a.d * b.n)
RLt(a, b) == a.n * b.d < b.n * a.d
RLe(a, b) == a.n * b.d <= b.n * a.d

\* The threshold 1e-9 of the cleanup is 1 / EpsilonDenominator.
EpsilonDenominator == 1000000000

\* q <= 1e-9, that is n / d <= 1 / EpsilonDenominator, without overflow.
LeEpsilon(q) == q.n <= q.d \div EpsilonDenominator

-----------------------------------------------------------------------------
(* The input: rows of the transaction DataFrame.                           *)

MaxRows == 3

Symbols == {"AAA", "BBB"}
Dates == {1, 2}
\* date.today(): later than every transaction date.
Today == 3

\* pandas' NaN in the Operacion column (a float, not a string).
NaN == "<NaN>"
IsNa(x) == x = NaN

Row(fecha, simbolo, operacion, cantidad, precio) ==
    [Fecha |-> fecha, Simbolo |-> simbolo, Operacion |-> operacion,
     Cantidad |-> R(cantidad), Precio_Compra_EUR |-> R(precio),
     Cotizacion |-> IF simbolo = "AAA" THEN R(150) ELSE R(40 + 10 * fecha),
     EURO_DIVISA_BCE |-> IF simbolo = "AAA" THEN R(1) ELSE Frac(9, 10),
     Divisa |-> IF simbolo = "AAA" THEN "EUR" ELSE "USD"]

Rows ==
    {Row(1, "AAA", "Compra", 10, 100),
     Row(2, "AAA", "Compra", 10, 120),
     Row(1, "AAA", "Venta", 5, 150),
     Row(2, "AAA", "Venta", 5, 150),
     Row(2, "AAA", "Venta", 10, 120),
     Row(1, "BBB", "Compra", 10, 100),
     Row(2, "BBB", "Venta", 10, 120),
     Row(1, "AAA", "Dividendo", 10, 100),
     Row(1, "AAA", "", 10, 100),
     Row(1, "AAA", NaN, 10, 100)}

DataFrames == UNION {[1..n -> Rows] : n \in 0..MaxRows}

-----------------------------------------------------------------------------
(* df.sort_values('Fecha'): kind defaults to 'quicksort', which pandas     *)
(* documents as not stable, so rows sharing a date may come out in any     *)
(* order.                                                                  *)

IsSortedByFecha(s) ==
    \A a, b \in 1..Len(s) : a < b => s[a].Fecha <= s[b].Fecha

SortValues(d) ==
    {s \in {[k \in 1..Len(d) |-> d[p[k]]] : p \in Permutations(1..Len(d))} :
        IsSortedByFecha(s)}

-----------------------------------------------------------------------------
(* str.lower() and the substring tests 'compra' in op_type, 'venta' in     *)
(* op_type, on the tokens of the input.                                    *)

Lower(token) ==
    CASE token = "Compra" -> "compra"
      [] token = "Venta" -> "venta"
      [] token = "Dividendo" -> "dividendo"
      [] OTHER -> token

HasCompra(op_type) == op_type \in {"compra"}
HasVenta(op_type) == op_type \in {"venta"}

-----------------------------------------------------------------------------
(* The dict portfolio_state as an insertion-ordered association list.      *)

Keys(ps) == {ps[k].symbol : k \in 1..Len(ps)}
Has(ps, s) == s \in Keys(ps)
IndexOf(ps, s) == CHOOSE k \in 1..Len(ps) : ps[k].symbol = s
Get(ps, s) == ps[IndexOf(ps, s)]

\* Cleanup that forgets the cost: only the quantity is zeroed.
CleanupQuantityOnly(state) ==
    IF LeEpsilon(state.quantity)
    THEN [state EXCEPT !.quantity = Zero]
    ELSE state

\* "Cleanup if closed"
Cleanup(state) ==
    IF LeEpsilon(state.quantity)
    THEN [state EXCEPT !.quantity = Zero, !.total_cost_eur = Zero]
    ELSE state

\* The 'compra' branch of the ledger loop, on ledger
\* L = [ps, realized, cash_flows, raised].
Compra(L, row) ==
    LET symbol == row.Simbolo
        amount_eur == RMul(row.Cantidad, row.Precio_Compra_EUR)
        ps0 == IF Has(L.ps, symbol)
               THEN L.ps
               ELSE Append(L.ps, [symbol |-> symbol, quantity |-> Zero,
                                  total_cost_eur |-> Zero])
        k == IndexOf(ps0, symbol)
    IN  [L EXCEPT
            !.ps = [ps0 EXCEPT ![k].quantity = RAdd(@, row.Cantidad),
                               ![k].total_cost_eur = RAdd(@, amount_eur)],
            !.cash_flows = Append(@, <<row.Fecha, RNeg(amount_eur)>>)]

\* The division total_cost_eur / quantity of the 'venta' branch divides by
\* zero: the position exists and its quantity is the 0 left by the cleanup.
VentaDividesByZero(L, row) ==
    /\ Has(L.ps, row.Simbolo)
    /\ Get(L.ps, row.Simbolo).quantity = Zero

\* The whole accumulated cost taken as the basis of the units sold.
CostBasisSoldWhole(state, qty) == state.total_cost_eur

\* The basis of the units held only: the sold quantity clamped to the holding.
CostBasisSoldClamped(state, qty) ==
    LET avg_cost == RDiv(state.total_cost_eur, state.quantity)
    IN  RMul(IF RLt(state.quantity, qty) THEN state.quantity ELSE qty, avg_cost)

\* cost_basis_sold = qty * avg_cost, avg_cost = total_cost_eur / quantity
CostBasisSold(state, qty) ==
    LET avg_cost == RDiv(state.total_cost_eur, state.quantity)
    IN  RMul(qty, avg_cost)

\* A 'venta' branch that opens a position for a symbol it does not know.
VentaOpensPosition(L, row) ==
    LET symbol == row.Simbolo
        qty == row.Cantidad
        amount_eur == RMul(qty, row.Precio_Compra_EUR)
        flows == Append(L.cash_flows, <<row.Fecha, amount_eur>>)
    IN  IF Has(L.ps, symbol)
        THEN LET k == IndexOf(L.ps, symbol)
                 state == L.ps[k]
                 cost_basis_sold == RMul(qty, RDiv(state.total_cost_eur, state.quantity))
                 sold == [state EXCEPT
                            !.quantity = RSub(@, qty),
                            !.total_cost_eur = RSub(@, cost_basis_sold)]
             IN  [L EXCEPT !.ps = [L.ps EXCEPT ![k] = Cleanup(sold)],
                           !.realized = RAdd(@, RSub(amount_eur, cost_basis_sold)),
                           !.cash_flows = flows]
        ELSE [L EXCEPT !.ps = Append(@, [symbol |-> symbol, quantity |-> Zero,
                                         total_cost_eur |-> Zero]),
                       !.cash_flows = flows]

\* The 'venta' branch of the ledger loop, when the division is defined.
Venta(L, row) ==
    LET symbol == row.Simbolo
        qty == row.Cantidad
        amount_eur == RMul(qty, row.Precio_Compra_EUR)
        flows == Append(L.cash_flows, <<row.Fecha, amount_eur>>)
    IN  IF Has(L.ps, symbol)
        THEN LET k == IndexOf(L.ps, symbol)
                 state == L.ps[k]
                 cost_basis_sold == CostBasisSold(state, qty)
                 realized_pl == RSub(amount_eur, cost_basis_sold)
                 sold == [state EXCEPT
                            !.quantity = RSub(@, qty),
                            !.total_cost_eur = RSub(@, cost_basis_sold)]
             IN  [L EXCEPT !.ps = [L.ps EXCEPT ![k] = Cleanup(sold)],
                           !.realized = RAdd(@, realized_pl),
                           !.cash_flows = flows]
        ELSE [L EXCEPT !.cash_flows = flows]

\* The body of the ledger loop for one row; raised names the exception that
\* leaves the function.
ApplyRow(L, row) ==
    IF IsNa(row.Operacion)
    THEN \* row['Operacion'].lower() on a float
         [L EXCEPT !.raised = "AttributeError"]
    ELSE LET op_type == Lower(row.Operacion)
         IN  IF HasCompra(op_type) THEN Compra(L, row)
             ELSE IF HasVenta(op_type)
             THEN IF VentaDividesByZero(L, row)
                  THEN [L EXCEPT !.raised = "ZeroDivisionError"]
                  ELSE Venta(L, row)
             ELSE L

Ledger == [ps |-> portfolio_state, realized |-> total_realized_pl_eur,
           cash_flows |-> cash_flows, raised |-> raised]

-----------------------------------------------------------------------------
(* The valuation loop.                                                     *)

SymbolsIn(d) == {d[k].Simbolo : k \in 1..Len(d)}

\* groupby('Simbolo')[col].last() after a fresh sort_values('Fecha'): the
\* value of any row of the symbol that carries the symbol's latest date.
LastCandidates(d, s, col) ==
    LET mine == {k \in 1..Len(d) : d[k].Simbolo = s}
    IN  {d[k][col] : k \in {m \in mine : \A o \in mine : d[o].Fecha <= d[m].Fecha}}

Latest(d, col) ==
    {f \in [SymbolsIn(d) -> {d[k][col] : k \in 1..Len(d)}] :
        \A s \in SymbolsIn(d) : f[s] \in LastCandidates(d, s, col)}

\* df[df['Simbolo'] == symbol].iloc[-1]
LastTxn(d, s) ==
    d[CHOOSE k \in 1..Len(d) :
        /\ d[k].Simbolo = s
        /\ \A o \in 1..Len(d) : d[o].Simbolo = s => o <= k]

IsOpen(state) == RLt(Zero, state.quantity)

MakeHolding(state, d, latest_prices, latest_fx) ==
    LET qty == state.quantity
        avg_cost == RDiv(state.total_cost_eur, qty)
        current_price_raw == latest_prices[state.symbol]
        fx_rate == latest_fx[state.symbol]
        currency == LastTxn(d, state.symbol).Divisa
        current_price_eur == IF currency # "EUR"
                             THEN RMul(current_price_raw, fx_rate)
                             ELSE current_price_raw
        market_value == RMul(qty, current_price_eur)
        unrealized_pl == RSub(market_value, state.total_cost_eur)
    IN  [symbol |-> state.symbol,
         quantity |-> qty,
         average_price |-> avg_cost,
         current_price |-> current_price_raw,
         market_value |-> market_value,
         unrealized_pl |-> unrealized_pl,
         unrealized_pl_percentage |->
             IF state.total_cost_eur # Zero
             THEN RMul(RDiv(unrealized_pl, state.total_cost_eur), R(100))
             ELSE Zero,
         realized_pl |-> Zero,
         currency |-> currency]

\* final_holdings overwritten by each row instead of appended to.
HoldingStatesLastOnly(ps) ==
    LET open == SelectSeq(ps, IsOpen)
    IN  IF open = <<>> THEN <<>> ELSE <<open[Len(open)]>>

\* The rows the loop over portfolio_state.items() appends to final_holdings.
HoldingStates(ps) == SelectSeq(ps, IsOpen)

RECURSIVE SumOf(_, _, _)
SumOf(seq, field, k) ==
    IF k = 0 THEN Zero ELSE RAdd(SumOf(seq, field, k - 1), seq[k][field])

-----------------------------------------------------------------------------
(* The diagnostic tally and the returned model.                            *)

RECURSIVE TallyFrom(_, _, _)
TallyFrom(d, k, ops) ==
    IF k > Len(d) THEN ops
    ELSE IF IsNa(d[k].Operacion) THEN TallyFrom(d, k + 1, ops)
    ELSE LET op_type == Lower(d[k].Operacion)
         IN  IF HasCompra(op_type) \/ HasVenta(op_type)
             THEN TallyFrom(d, k + 1, ops)
             ELSE TallyFrom(d, k + 1,
                    [t \in DOMAIN ops \cup {op_type} |->
                        IF t \in DOMAIN ops
                        THEN IF t = op_type THEN ops[t] + 1 ELSE ops[t]
                        ELSE 1])

\* The fields models.PortfolioSummary declares.
PortfolioSummaryFields ==
    {"total_value_eur", "total_invested_eur", "total_unrealized_pl_eur",
     "total_realized_pl_eur", "irr", "holdings"}

\* pydantic's BaseModel keeps the declared fields of the keyword arguments
\* and ignores the others (extra = 'ignore' is the default).
PortfolioSummary(kwargs) ==
    [f \in DOMAIN kwargs \cap PortfolioSummaryFields |-> kwargs[f]]

-----------------------------------------------------------------------------
(* The IRR solver npf.xirr is outside the repository: it may raise, or     *)
(* return NaN, an infinity or a finite rate.                               *)

XirrOutcomes == {"raise", "nan", "inf", "rate"}

RECURSIVE IrrFlowsFrom(_, _)
IrrFlowsFrom(d, k) ==
    IF k = 0 THEN <<>>
    ELSE LET row == d[k]
             op_type == Lower(row.Operacion)
             amount_eur == RMul(row.Cantidad, row.Precio_Compra_EUR)
             before == IrrFlowsFrom(d, k - 1)
         IN  IF HasCompra(op_type) THEN Append(before, <<row.Fecha, RNeg(amount_eur)>>)
             ELSE IF HasVenta(op_type) THEN Append(before, <<row.Fecha, amount_eur>>)
             ELSE before

-----------------------------------------------------------------------------
(* The call.                                                               *)

Init ==
    /\ df \in DataFrames
    /\ sorted = <<>>
    /\ pc = "sort"
    /\ i = 0
    /\ portfolio_state = <<>>
    /\ total_realized_pl_eur = Zero
    /\ cash_flows = <<>>
    /\ final_holdings = <<>>
    /\ total_value_eur = Zero
    /\ total_invested_eur = Zero
    /\ total_unrealized_pl_eur = Zero
    /\ irr_flows = <<>>
    /\ irr = "0.0"
    /\ ignored_ops = <<>>
    /\ summary = <<>>
    /\ raised = ""

Raise(exception) ==
    /\ pc' = "raised"
    /\ raised' = exception

\* df = df.sort_values('Fecha')
Sort ==
    /\ pc = "sort"
    /\ sorted' \in SortValues(df)
    /\ pc' = "fold"
    /\ UNCHANGED <<df, i, portfolio_state, total_realized_pl_eur, cash_flows,
                   final_holdings, total_value_eur, total_invested_eur,
                   total_unrealized_pl_eur, irr_flows, irr, ignored_ops,
                   summary, raised>>

\* One iteration of "for _, row in df.iterrows()" of the ledger fold.
LedgerStep ==
    /\ pc = "fold"
    /\ i < Len(sorted)
    /\ LET L == ApplyRow(Ledger, sorted[i + 1])
       IN  /\ portfolio_state' = L.ps
           /\ total_realized_pl_eur' = L.realized
           /\ cash_flows' = L.cash_flows
           /\ raised' = L.raised
           /\ IF L.raised = ""
              THEN i' = i + 1 /\ pc' = pc
              ELSE i' = i /\ pc' = "raised"
    /\ UNCHANGED <<df, sorted, final_holdings, total_value_eur, total_invested_eur,
                   total_unrealized_pl_eur, irr_flows, irr, ignored_ops, summary>>

\* "Generate Holdings List": the loop over portfolio_state.items().
Valuation ==
    /\ pc = "fold"
    /\ i = Len(sorted)
    /\ \E latest_prices \in Latest(sorted, "Cotizacion"),
          latest_fx \in Latest(sorted, "EURO_DIVISA_BCE") :
          LET open == HoldingStates(portfolio_state)
              hs == [k \in 1..Len(open) |->
                        MakeHolding(open[k], sorted, latest_prices, latest_fx)]
          IN  /\ final_holdings' = hs
              /\ total_value_eur' = SumOf(hs, "market_value", Len(hs))
              /\ total_unrealized_pl_eur' = SumOf(hs, "unrealized_pl", Len(hs))
              /\ total_invested_eur' = SumOf(open, "total_cost_eur", Len(open))
              /\ cash_flows' = cash_flows \o
                               [k \in 1..Len(hs) |-> <<Today, hs[k].market_value>>]
    /\ pc' = "irr"
    /\ UNCHANGED <<df, sorted, i, portfolio_state, total_realized_pl_eur,
                   irr_flows, irr, ignored_ops, summary, raised>>

\* "Calculate IRR (XIRR)"
ComputeIRR ==
    /\ pc = "irr"
    /\ IF cash_flows = <<>>
       THEN /\ UNCHANGED <<irr_flows, irr, raised>>
            /\ pc' = "return"
       ELSE IF \E k \in 1..Len(sorted) : IsNa(sorted[k].Operacion)
       THEN /\ Raise("AttributeError")
            /\ UNCHANGED <<irr_flows, irr>>
       ELSE /\ irr_flows' =
                  IF RLt(Zero, total_value_eur)
                  THEN Append(IrrFlowsFrom(sorted, Len(sorted)),
                              <<Today, total_value_eur>>)
                  ELSE IrrFlowsFrom(sorted, Len(sorted))
            /\ \E outcome \in XirrOutcomes :
                  irr' = IF outcome = "raise" THEN "0.0" ELSE outcome
            /\ pc' = "return"
            /\ UNCHANGED raised
    /\ UNCHANGED <<df, sorted, i, portfolio_state, total_realized_pl_eur, cash_flows,
                   final_holdings, total_value_eur, total_invested_eur,
                   total_unrealized_pl_eur, ignored_ops, summary>>

\* "Track ignored operations for debugging", then return PortfolioSummary(...)
Return ==
    /\ pc = "return"
    /\ ignored_ops' = TallyFrom(sorted, 1, <<>>)
    /\ summary' = PortfolioSummary(
          [total_value_eur |-> total_value_eur,
           total_invested_eur |-> total_invested_eur,
           total_unrealized_pl_eur |-> total_unrealized_pl_eur,
           total_realized_pl_eur |-> total_realized_pl_eur,
           irr |-> IF irr # "nan" THEN irr ELSE "0.0",
           holdings |-> final_holdings,
           debug_info |-> [ignored_operations |-> ignored_ops',
                           total_rows |-> Len(sorted)]])
    /\ pc' = "done"
    /\ UNCHANGED <<df, sorted, i, portfolio_state, total_realized_pl_eur, cash_flows,
                   final_holdings, total_value_eur, total_invested_eur,
                   total_unrealized_pl_eur, irr_flows, irr, raised>>

Next == Sort \/ LedgerStep \/ Valuation \/ ComputeIRR \/ Return

Spec == Init /\ [][Next]_vars

-----------------------------------------------------------------------------
(* Properties.                                                             *)

\* The ledger loop is about to process a row, CurRow.
InFold == pc = "fold" /\ i < Len(sorted)
CurRow == sorted[i + 1]

IsBuy(row) == ~IsNa(row.Operacion) /\ HasCompra(Lower(row.Operacion))
IsSell(row) ==
    /\ ~IsNa(row.Operacion)
    /\ ~HasCompra(Lower(row.Operacion))
    /\ HasVenta(Lower(row.Operacion))
IsBlank(row) == IsNa(row.Operacion) \/ row.Operacion = ""
IsUnrecognized(row) == ~IsBlank(row) /\ ~IsBuy(row) /\ ~IsSell(row)

\* The ledger loop is about to process a Sell of a symbol that has a position.
SellOnPosition == InFold /\ IsSell(CurRow) /\ Has(portfolio_state, CurRow.Simbolo)
CurState == Get(portfolio_state, CurRow.Simbolo)
\* sold_quantity * (sell_price - average_cost_at_time_of_sell)
CurSpread ==
    RMul(CurRow.Cantidad,
         RSub(CurRow.Precio_Compra_EUR,
              RDiv(CurState.total_cost_eur, CurState.quantity)))

Position(symbol, quantity, cost) ==
    [symbol |-> symbol, quantity |-> R(quantity), total_cost_eur |-> R(cost)]

\* C1: a Sell against a position with quantity_held > 0 adds
\* sold_quantity * (sell_price - accumulated_cost / quantity_held) to
\* total_realized_pl, whatever Buys built the position; after Buy 10 @ 100,
\* Buy 10 @ 120 the Sell 5 @ 150 adds 200 and leaves quantity 15, cost 1650.
C1_RealizedPLAtAverageCost ==
    [][/\ (SellOnPosition /\ RLt(Zero, CurState.quantity))
          => total_realized_pl_eur' = RAdd(total_realized_pl_eur, CurSpread)
       /\ (/\ SellOnPosition
           /\ CurState = Position("AAA", 20, 2200)
           /\ CurRow.Cantidad = R(5)
           /\ CurRow.Precio_Compra_EUR = R(150))
          => /\ total_realized_pl_eur' = RAdd(total_realized_pl_eur, R(200))
             /\ Get(portfolio_state', "AAA") = Position("AAA", 15, 1650)]_vars

C1_Witness ==
    /\ pc = "fold"
    /\ i = 3
    /\ sorted = <<Row(1, "AAA", "Compra", 10, 100),
                  Row(2, "AAA", "Compra", 10, 120),
                  Row(2, "AAA", "Venta", 5, 150)>>
    /\ total_realized_pl_eur = R(200)
    /\ portfolio_state = <<Position("AAA", 15, 1650)>>

\* C2: after every record every position has quantity_held >= 0, and
\* quantity_held = 0 implies accumulated_cost = 0.
C2_QuantityNonNegativeCostInLockstep ==
    \A k \in 1..Len(portfolio_state) :
        /\ RLe(Zero, portfolio_state[k].quantity)
        /\ portfolio_state[k].quantity = Zero
           => portfolio_state[k].total_cost_eur = Zero

\* A Sell has closed AAA (Buy 10, Sell 10) beside the open BBB.
C2_Witness ==
    /\ pc = "fold"
    /\ i = 3
    /\ sorted = <<Row(1, "AAA", "Compra", 10, 100),
                  Row(1, "BBB", "Compra", 10, 100),
                  Row(2, "AAA", "Venta", 10, 120)>>
    /\ portfolio_state = <<Position("AAA", 0, 0), Position("BBB", 10, 1000)>>

\* C3: a Sell for a symbol whose position exists with quantity_held = 0 skips
\* the realized-P&L computation, raises no error, and the fold goes on to the
\* next record.
C3_SellOnClosedPositionSkipped ==
    [][(SellOnPosition /\ CurState.quantity = Zero)
       => /\ raised' = ""
          /\ pc' = "fold"
          /\ i' = i + 1
          /\ total_realized_pl_eur' = total_realized_pl_eur]_vars

\* C4: a record whose side token is missing or empty is silently skipped: no
\* position change, no cash flow, no error, and no entry in
\* ignored_operation_counts.
C4_BlankSideTokenSkipped ==
    [][/\ (InFold /\ IsBlank(CurRow))
          => /\ raised' = ""
             /\ pc' = "fold"
             /\ i' = i + 1
             /\ portfolio_state' = portfolio_state
             /\ cash_flows' = cash_flows
             /\ total_realized_pl_eur' = total_realized_pl_eur
       /\ pc' = "done" => DOMAIN ignored_ops' \cap {"", NaN} = {}]_vars

\* C5: a record whose side token is neither Buy nor Sell changes no position
\* and no realized P&L, and the returned summary carries diagnostics mapping
\* each such lower-cased token to the number of records bearing it, with the
\* total row count.
C5_UnrecognizedTokensCountedInSummary ==
    [][/\ (InFold /\ IsUnrecognized(CurRow))
          => /\ portfolio_state' = portfolio_state
             /\ total_realized_pl_eur' = total_realized_pl_eur
       /\ (pc' = "done" /\ \E k \in 1..Len(df) : IsUnrecognized(df[k]))
          => /\ "debug_info" \in DOMAIN summary'
             /\ summary'.debug_info.total_rows = Len(df)
             /\ \A k \in 1..Len(df) :
                   IsUnrecognized(df[k])
                   => /\ Lower(df[k].Operacion)
                           \in DOMAIN summary'.debug_info.ignored_operations
                      /\ summary'.debug_info.ignored_operations[Lower(df[k].Operacion)]
                           = Cardinality({j \in 1..Len(df) :
                                            /\ IsUnrecognized(df[j])
                                            /\ Lower(df[j].Operacion)
                                                 = Lower(df[k].Operacion)})]_vars

\* C6: a Sell for a symbol with no preceding Buy creates no position, changes
\* no existing position and adds nothing to total_realized_pl; a symbol
\* without a position has no Holding row.
C6_SellWithoutPositionIsNoOp ==
    [][/\ (InFold /\ IsSell(CurRow) /\ ~Has(portfolio_state, CurRow.Simbolo))
          => /\ portfolio_state' = portfolio_state
             /\ total_realized_pl_eur' = total_realized_pl_eur
             /\ raised' = ""
       /\ pc' = "done"
          => \A k \in 1..Len(summary'.holdings) :
                Has(portfolio_state', summary'.holdings[k].symbol)]_vars

\* BBB is sold without ever being bought, beside an open AAA position.
C6_Witness ==
    /\ pc = "done"
    /\ sorted = <<Row(1, "AAA", "Compra", 10, 100), Row(2, "BBB", "Venta", 10, 120)>>
    /\ portfolio_state = <<Position("AAA", 10, 1000)>>
    /\ summary.total_realized_pl_eur = Zero
    /\ Len(summary.holdings) = 1
    /\ summary.holdings[1].symbol = "AAA"

\* The ledger loop is about to process a Sell of more than the positive
\* quantity held.
OverSell == SellOnPosition /\ RLt(Zero, CurState.quantity)
            /\ RLt(CurState.quantity, CurRow.Cantidad)

\* C7 as stated: a Sell whose quantity exceeds quantity_held skips the
\* realized-P&L computation: total_realized_pl is unchanged and no error is
\* raised.  (Stated for a positive quantity_held; a Sell on a position of
\* quantity 0 is the case of C3.)
C7_OverSellSkipsRealizedPL ==
    [][OverSell
       => /\ total_realized_pl_eur' = total_realized_pl_eur
          /\ raised' = ""]_vars

\* C7 amended: a Sell whose quantity exceeds a positive quantity_held raises
\* no error, adds sold_quantity * (sell_price - average_cost) for the whole
\* sold quantity to total_realized_pl, and closes the position (both fields
\* zero).
C7_OverSellRealizesWholeQuantity ==
    [][OverSell
       => /\ raised' = ""
          /\ pc' = "fold"
          /\ total_realized_pl_eur' = RAdd(total_realized_pl_eur, CurSpread)
          /\ Get(portfolio_state', CurRow.Simbolo).quantity = Zero
          /\ Get(portfolio_state', CurRow.Simbolo).total_cost_eur = Zero]_vars

\* Buy 10 @ 100, Sell 5 @ 150 (250 realized), then Sell 10 @ 120 against the 5
\* held at average cost 100: 10 * (120 - 100) = 200 more.
C7_Witness ==
    /\ pc = "fold"
    /\ i = 3
    /\ sorted = <<Row(1, "AAA", "Compra", 10, 100),
                  Row(1, "AAA", "Venta", 5, 150),
                  Row(2, "AAA", "Venta", 10, 120)>>
    /\ total_realized_pl_eur = R(450)
    /\ raised = ""

RowsOf(holdings, s) == {k \in 1..Len(holdings) : holdings[k].symbol = s}

\* C8: the Holding list has exactly one row for each symbol whose final
\* quantity_held > 0 and no row for any other symbol; a Sell of exactly the
\* held quantity leaves quantity_held = 0, and the totals are those of the
\* rows alone.
C8_HoldingsAreTheOpenPositions ==
    [][/\ (SellOnPosition /\ RLt(Zero, CurState.quantity)
           /\ CurRow.Cantidad = CurState.quantity)
          => Get(portfolio_state', CurRow.Simbolo).quantity = Zero
       /\ pc' = "done"
          => LET hs == summary'.holdings
             IN  /\ \A s \in Symbols :
                       Cardinality(RowsOf(hs, s)) =
                         IF Has(portfolio_state', s)
                            /\ RLt(Zero, Get(portfolio_state', s).quantity)
                         THEN 1 ELSE 0
                 /\ \A k \in 1..Len(hs) :
                       hs[k].quantity = Get(portfolio_state', hs[k].symbol).quantity
                 /\ summary'.total_value_eur = SumOf(hs, "market_value", Len(hs))
                 /\ summary'.total_unrealized_pl_eur
                      = SumOf(hs, "unrealized_pl", Len(hs))
                 /\ summary'.total_invested_eur
                      = RSub(summary'.total_value_eur,
                             summary'.total_unrealized_pl_eur)]_vars

\* AAA is bought and sold in full, BBB stays open: one row, of BBB.
C8_Witness ==
    /\ pc = "done"
    /\ sorted = <<Row(1, "AAA", "Compra", 10, 100),
                  Row(1, "BBB", "Compra", 10, 100),
                  Row(2, "AAA", "Venta", 10, 120)>>
    /\ Get(portfolio_state, "AAA").quantity = Zero
    /\ Len(summary.holdings) = 1
    /\ summary.holdings[1].symbol = "BBB"
    /\ summary.total_invested_eur = R(1000)

\* C9: whatever the IRR solver does other than return a finite rate (it
\* raises, returns NaN, returns an infinity), and for an empty transaction
\* list, the reported internal_rate_of_return is exactly 0.0.
C9_IrrFailureReportsZero ==
    pc = "done" /\ (irr # "rate" \/ df = <<>>) => summary.irr = "0.0"

\* The ledger fold of a row sequence, from the empty ledger.
RECURSIVE FoldRows(_, _)
FoldRows(rows, k) ==
    IF k = 0
    THEN [ps |-> <<>>, realized |-> Zero, cash_flows |-> <<>>, raised |-> ""]
    ELSE LET before == FoldRows(rows, k - 1)
         IN  IF before.raised = "" THEN ApplyRow(before, rows[k]) ELSE before

\* The rows of d by non-decreasing date, rows of one date in input order.
StableSorted(d) ==
    LET p == CHOOSE q \in Permutations(1..Len(d)) :
                 \A a, b \in 1..Len(d) :
                    a < b => \/ d[q[a]].Fecha < d[q[b]].Fecha
                             \/ d[q[a]].Fecha = d[q[b]].Fecha /\ q[a] < q[b]
    IN  [k \in 1..Len(d) |-> d[p[k]]]

\* C10: the records are applied in non-decreasing date order, same-date
\* records in input order, so the positions and total_realized_pl that leave
\* the fold are those of the input order.
C10_StableDateOrderResult ==
    pc = "irr"
    => /\ IsSortedByFecha(sorted)
       /\ LET F == FoldRows(StableSorted(df), Len(df))
          IN  /\ F.raised = ""
              /\ F.ps = portfolio_state
              /\ F.realized = total_realized_pl_eur

====
